---- MODULE Spec2Model ----
(***************************************************************************)
(* A model of the pairwise-comparison ranking pipeline (rank.py) and of    *)
(* the pair scheduler that feeds it (vote.py).                             *)
(*                                                                         *)
(* Text is modelled as a sequence of code points, so that str.strip() and  *)
(* Python's ordering of strings are computed rather than assumed.          *)
(* Python floats are modelled as exact non-negative rationals over         *)
(* arbitrary-precision naturals: IEEE rounding error is not modelled.      *)
(***************************************************************************)
EXTENDS Naturals, Integers, Sequences, FiniteSets, TLC

VARIABLES
    \* main() of rank.py, up to and including load_results
    file,          \* the CSV: [cols |-> optional columns present, rows |-> data rows]
    idx,           \* number of rows the reader has yielded
    rows,          \* load_results' local list
    results,       \* main's `results` (<<>> until load_results returns)
    pc,            \* "load" | "loaded" | "raised" | "done" | "off"
    report,        \* what write_csv has emitted: [header |-> BOOLEAN, projects |-> set]
    \* build_win_matrix
    m_results,     \* its argument
    m_pos,         \* outcomes consumed by the loop
    wins,          \* the wins matrix, a dict of dicts
    records,       \* entity -> <<wins, total>>
    m_pc,          \* "loop" | "returned" | "off"
    \* bradley_terry
    f_wins,        \* its argument `wins`
    max_iters,     \* its argument
    tol,           \* its argument
    scores,        \* the dict `scores`
    iter,          \* rounds of the loop of line 91 completed
    broke,         \* the break of line 120 was taken
    trail,         \* history: `scores` as assigned by line 118, round by round
    f_pc,          \* "loop" | "returned" | "raised" | "off"
    \* rank_scores
    r_scores,      \* its argument, as the items of the dict in insertion order
    r_given,       \* history: the argument as the caller passed it
    r_ranked,      \* the list it returns
    r_pc,          \* "call" | "returned" | "off"
    \* powerlaw_allocations
    a_ranked,      \* its argument `ranked`
    alpha,         \* its argument
    top_n,         \* its argument
    max_fil,       \* its argument
    min_fil,       \* its argument
    budget_fil,    \* its argument
    allocations,   \* the dict `allocations`
    a_idx,         \* entries of `ranked` the two loops have visited
    a_pc,          \* "loop" | "returned" | "off"
    \* generate_pairs of vote.py
    projects,         \* its argument, a list of distinct names
    min_appearances,  \* its argument
    roster,           \* the list `roster`
    counts,           \* the dict `counts`
    pairs,            \* the list `pairs`
    round_number,     \* the local `round_number`
    p_pc              \* "start" | "loop" | "returned" | "raised" | "off"

mainVars == <<file, idx, rows, results, pc, report>>
matVars == <<m_results, m_pos, wins, records, m_pc>>
fitVars == <<f_wins, max_iters, tol, scores, iter, broke, trail, f_pc>>

rankVars == <<r_scores, r_given, r_ranked, r_pc>>
allocVars == <<a_ranked, alpha, top_n, max_fil, min_fil, budget_fil, allocations, a_idx, a_pc>>
pairVars == <<projects, min_appearances, roster, counts, pairs, round_number, p_pc>>

vars == <<mainVars, matVars, fitVars, rankVars, allocVars, pairVars>>

\* what each function leaves alone: the state of the others
notMain == <<matVars, fitVars, rankVars, allocVars, pairVars>>
notMat == <<mainVars, fitVars, rankVars, allocVars, pairVars>>
notFit == <<mainVars, matVars, rankVars, allocVars, pairVars>>
notRank == <<mainVars, matVars, fitVars, allocVars, pairVars>>
notAlloc == <<mainVars, matVars, fitVars, rankVars, pairVars>>
notPairs == <<mainVars, matVars, fitVars, rankVars, allocVars>>

(***************************************************************************)
(* Text                                                                    *)
(***************************************************************************)
sA == <<65>>                                   \* "A"
sB == <<66>>                                   \* "B"
sC == <<67>>                                   \* "C"
sEmpty == <<>>                                 \* ""
sProjectA == <<112,114,111,106,101,99,116,95,97>>   \* "project_a"
sProjectB == <<112,114,111,106,101,99,116,95,98>>   \* "project_b"

\* str.isspace() on one ASCII character
IsSpace(c) == c \in {9, 10, 11, 12, 13, 28, 29, 30, 31, 32}

RECURSIVE LStrip(_)
LStrip(s) == IF s = <<>> THEN s
             ELSE IF IsSpace(Head(s)) THEN LStrip(Tail(s)) ELSE s

RECURSIVE RStrip(_)
RStrip(s) == IF s = <<>> THEN s
             ELSE IF IsSpace(s[Len(s)]) THEN RStrip(SubSeq(s, 1, Len(s) - 1)) ELSE s

\* str.strip()
Strip(s) == RStrip(LStrip(s))

\* Python's `<` on str: lexicographic by code point
RECURSIVE StrLess(_, _)
StrLess(s, t) ==
    IF t = <<>> THEN FALSE
    ELSE IF s = <<>> THEN TRUE
    ELSE IF Head(s) # Head(t) THEN Head(s) < Head(t)
    ELSE StrLess(Tail(s), Tail(t))

(***************************************************************************)
(* rank.py: load_results                                                   *)
(***************************************************************************)
MaxRows == 2

\* dict.get(key, default) on a csv.DictReader row: the key is there exactly
\* when the file's header has the column
Get(row, key, default) == IF key \in DOMAIN row THEN row[key] ELSE default

\* raw cell values the inputs are drawn from
NameCells == {sA, <<32, 66, 32>>}                        \* "A", " B "
WinnerCells == {sProjectA, sProjectB \o <<32>>, sEmpty}  \* "project_a", "project_b ", ""
WinnerNameCells == {sEmpty, <<32>> \o sA, sC}            \* "", " A", "C"

CellsOf(col) == CASE col = "project_a" -> NameCells
                  [] col = "project_b" -> NameCells
                  [] col = "winner" -> WinnerCells
                  [] col = "winner_name" -> WinnerNameCells

RowsWith(cols) ==
    { r \in [ {"project_a", "project_b"} \cup cols ->
                NameCells \cup WinnerCells \cup WinnerNameCells ] :
        \A c \in DOMAIN r : r[c] \in CellsOf(c) }

SeqsUpTo(S, n) == UNION { [1..k -> S] : k \in 0..n }

\* every file of at most MaxRows data rows under a header with the optional
\* columns cols; all rows of a file carry the columns of its header
FilesWith(cols) == { [cols |-> cols, rows |-> rs] : rs \in SeqsUpTo(RowsWith(cols), MaxRows) }

\* lines 26-29: the four stripped fields of a row
FieldA(row) == Strip(row["project_a"])
FieldB(row) == Strip(row["project_b"])
FieldWinnerKey(row) == Strip(Get(row, "winner", sEmpty))
FieldWinnerName(row) == Strip(Get(row, "winner_name", sEmpty))

\* lines 31-38: the winner the row names; "unrecognized" stands for the raise of
\* line 38
Unrecognized == <<0>>
ResolveWinner(row) ==
    IF FieldWinnerName(row) # sEmpty THEN FieldWinnerName(row)
    ELSE IF FieldWinnerKey(row) = sProjectA THEN FieldA(row)
    ELSE IF FieldWinnerKey(row) = sProjectB THEN FieldB(row)
    ELSE Unrecognized

\* RowAccepted without the membership test of line 40
RowAcceptedAnyWinner(row) == ResolveWinner(row) # Unrecognized

\* lines 31-41: TRUE when the row passes both checks
RowAccepted(row) ==
    /\ ResolveWinner(row) # Unrecognized
    /\ ResolveWinner(row) \in {FieldA(row), FieldB(row)}

NoReport == [header |-> FALSE, projects |-> {}]

MainInit ==
    /\ \E cols \in SUBSET {"winner", "winner_name"} : file \in FilesWith(cols)
    /\ idx = 0
    /\ rows = <<>>
    /\ results = <<>>
    /\ pc = "load"
    /\ report = NoReport

\* one iteration of the loop of lines 25-43
LoadRow ==
    /\ pc = "load"
    /\ idx < Len(file.rows)
    /\ LET row == file.rows[idx + 1] IN
         IF RowAccepted(row)
         THEN /\ rows' = Append(rows, <<FieldA(row), FieldB(row), ResolveWinner(row)>>)
              /\ idx' = idx + 1
              /\ pc' = pc
         ELSE /\ pc' = "raised"
              /\ UNCHANGED <<rows, idx>>
    /\ UNCHANGED <<file, results, report, notMain>>

\* lines 44-46 and main's assignment of line 215
LoadEnd ==
    /\ pc = "load"
    /\ idx = Len(file.rows)
    /\ IF rows = <<>>
       THEN pc' = "raised" /\ UNCHANGED results
       ELSE pc' = "loaded" /\ results' = rows
    /\ UNCHANGED <<file, idx, rows, report, notMain>>

(***************************************************************************)
(* rank.py: build_win_matrix                                               *)
(***************************************************************************)
MaxOutcomes == 3

Names == {sA, sB, sC}

\* the outcomes load_results can append (line 43): the winner is one of the two
\* sides; nothing in lines 26-43 compares the two sides with each other
Outcomes == { <<a, b, w>> : a \in Names, b \in Names, w \in Names } \cap
            { o \in Names \X Names \X Names : o[3] \in {o[1], o[2]} }

\* a dict is a function on its keys
EmptyDict == <<>>
DGet(d, k, default) == IF k \in DOMAIN d THEN d[k] ELSE default
DSet(d, k, v) == (k :> v) @@ d

\* wins[x][y] += 1 on a defaultdict of defaultdict(int)
IncWin(w, x, y) == DSet(w, x, DSet(DGet(w, x, EmptyDict), y, DGet(DGet(w, x, EmptyDict), y, 0) + 1))

\* w, t = records[x]; records[x] = (w + dw, t + 1) on a defaultdict(lambda: (0, 0))
Bump(r, x, dw) == DSet(r, x, <<DGet(r, x, <<0, 0>>)[1] + dw, DGet(r, x, <<0, 0>>)[2] + 1>>)

\* wins[x] and records[x] evaluated for their side effect (lines 71-74)
TouchWins(w, x) == IF x \in DOMAIN w THEN w ELSE DSet(w, x, EmptyDict)
TouchRecords(r, x) == IF x \in DOMAIN r THEN r ELSE DSet(r, x, <<0, 0>>)

\* the body of the loop, lines 57-74, on one outcome
BuildOne(st, o) ==
    LET a == o[1]
        b == o[2]
        winner == o[3]
        w1 == IF winner = a THEN IncWin(st.wins, a, b) ELSE IncWin(st.wins, b, a)
        r1 == IF winner = a THEN Bump(Bump(st.records, a, 1), b, 0)
                            ELSE Bump(Bump(st.records, b, 1), a, 0)
    IN [wins |-> TouchWins(TouchWins(w1, a), b),
        records |-> TouchRecords(TouchRecords(r1, a), b)]

\* build_win_matrix as a function of its argument
RECURSIVE BuildFrom(_, _, _)
BuildFrom(st, rs, i) == IF i > Len(rs) THEN st ELSE BuildFrom(BuildOne(st, rs[i]), rs, i + 1)
BuildWinMatrix(rs) == BuildFrom([wins |-> EmptyDict, records |-> EmptyDict], rs, 1)

MatInit ==
    /\ m_results \in SeqsUpTo(Outcomes, MaxOutcomes)
    /\ m_pos = 0
    /\ wins = EmptyDict
    /\ records = EmptyDict
    /\ m_pc = "loop"

\* one iteration of the loop of line 56
BuildStep ==
    /\ m_pc = "loop"
    /\ m_pos < Len(m_results)
    /\ LET st == BuildOne([wins |-> wins, records |-> records], m_results[m_pos + 1]) IN
         /\ wins' = st.wins
         /\ records' = st.records
    /\ m_pos' = m_pos + 1
    /\ UNCHANGED <<m_results, m_pc, notMat>>

\* line 75
BuildReturn ==
    /\ m_pc = "loop"
    /\ m_pos = Len(m_results)
    /\ m_pc' = "returned"
    /\ UNCHANGED <<m_results, m_pos, wins, records, notMat>>

(***************************************************************************)
(* Arithmetic for Python floats, taken as exact non-negative rationals.    *)
(* A natural is its sequence of base-Base digits, least significant first, *)
(* with no leading zero digit (zero is <<>>); a rational is a record       *)
(* [n |-> numerator, d |-> denominator], not necessarily in lowest terms.  *)
(***************************************************************************)
Base == 100 * 100

Digit(a, i) == IF i <= Len(a) THEN a[i] ELSE 0
Max(m, n) == IF m >= n THEN m ELSE n
Min(m, n) == IF m <= n THEN m ELSE n

RECURSIVE BTrim(_)
BTrim(a) == IF a = <<>> THEN a
            ELSE IF a[Len(a)] = 0 THEN BTrim(SubSeq(a, 1, Len(a) - 1)) ELSE a

\* a natural number below Base * Base as digits
BNat(k) == BTrim(<<k % Base, k \div Base>>)

\* digits lo..hi of a + b + carry, and the carry out
RECURSIVE BAddRange(_, _, _, _, _)
BAddRange(a, b, lo, hi, carry) ==
    IF lo = hi
    THEN LET s == Digit(a, lo) + Digit(b, lo) + carry IN <<<<s % Base>>, s \div Base>>
    ELSE LET mid == (lo + hi) \div 2
             low == BAddRange(a, b, lo, mid, carry)
             high == BAddRange(a, b, mid + 1, hi, low[2])
         IN <<low[1] \o high[1], high[2]>>

BAdd(a, b) ==
    IF a = <<>> THEN b
    ELSE IF b = <<>> THEN a
    ELSE LET r == BAddRange(a, b, 1, Max(Len(a), Len(b)), 0)
         IN IF r[2] = 0 THEN r[1] ELSE Append(r[1], r[2])

\* digits lo..hi of a - b - borrow, and the borrow out
RECURSIVE BSubRange(_, _, _, _, _)
BSubRange(a, b, lo, hi, borrow) ==
    IF lo = hi
    THEN LET s == Digit(a, lo) - Digit(b, lo) - borrow
         IN IF s < 0 THEN <<<<s + Base>>, 1>> ELSE <<<<s>>, 0>>
    ELSE LET mid == (lo + hi) \div 2
             low == BSubRange(a, b, lo, mid, borrow)
             high == BSubRange(a, b, mid + 1, hi, low[2])
         IN <<low[1] \o high[1], high[2]>>

\* a - b, for a >= b
BSub(a, b) == IF b = <<>> THEN a ELSE BTrim(BSubRange(a, b, 1, Len(a), 0)[1])

\* -1, 0, 1 as a < b, a = b, a > b, comparing digits i down to 1
RECURSIVE BCmpFrom(_, _, _)
BCmpFrom(a, b, i) ==
    IF i = 0 THEN 0
    ELSE IF a[i] < b[i] THEN -1
    ELSE IF a[i] > b[i] THEN 1
    ELSE BCmpFrom(a, b, i - 1)

BCmp(a, b) == IF Len(a) < Len(b) THEN -1
              ELSE IF Len(a) > Len(b) THEN 1
              ELSE BCmpFrom(a, b, Len(a))
BLess(a, b) == BCmp(a, b) < 0

\* digits lo..hi of a * m + carry for one digit m, and the carry out
RECURSIVE BScaleRange(_, _, _, _, _)
BScaleRange(a, m, lo, hi, carry) ==
    IF lo = hi
    THEN LET s == a[lo] * m + carry IN <<<<s % Base>>, s \div Base>>
    ELSE LET mid == (lo + hi) \div 2
             low == BScaleRange(a, m, lo, mid, carry)
             high == BScaleRange(a, m, mid + 1, hi, low[2])
         IN <<low[1] \o high[1], high[2]>>

BScale(a, m) ==
    IF m = 0 \/ a = <<>> THEN <<>>
    ELSE LET r == BScaleRange(a, m, 1, Len(a), 0)
         IN IF r[2] = 0 THEN r[1] ELSE Append(r[1], r[2])

\* a * Base^k
BShift(a, k) == IF a = <<>> \/ k = 0 THEN a ELSE [i \in 1..k |-> 0] \o a

\* a * (digits lo..hi of b)
RECURSIVE BMulRange(_, _, _, _)
BMulRange(a, b, lo, hi) ==
    IF lo = hi THEN BScale(a, b[lo])
    ELSE LET mid == (lo + hi) \div 2
         IN BAdd(BMulRange(a, b, lo, mid), BShift(BMulRange(a, b, mid + 1, hi), mid + 1 - lo))

BMul(a, b) ==
    IF a = <<>> \/ b = <<>> THEN <<>>
    ELSE IF Len(a) >= Len(b) THEN BMulRange(a, b, 1, Len(b))
    ELSE BMulRange(b, a, 1, Len(a))

QInt(k) == [n |-> BNat(k), d |-> <<1>>]
QZero == QInt(0)
QOne == QInt(1)
QIsZero(x) == x.n = <<>>

\* x + y; two fractions over the same denominator are added over it
QAdd(x, y) == IF x.d = y.d THEN [n |-> BAdd(x.n, y.n), d |-> x.d]
              ELSE [n |-> BAdd(BMul(x.n, y.d), BMul(y.n, x.d)), d |-> BMul(x.d, y.d)]
\* x / y, for y > 0
QDiv(x, y) == [n |-> BMul(x.n, y.d), d |-> BMul(x.d, y.n)]
\* x < y
QLess(x, y) == IF x.d = y.d THEN BLess(x.n, y.n)
               ELSE BLess(BMul(x.n, y.d), BMul(y.n, x.d))
QEq(x, y) == BMul(x.n, y.d) = BMul(y.n, x.d)
\* abs(x - y)
QAbsDiff(x, y) ==
    LET l == BMul(x.n, y.d)
        r == BMul(y.n, x.d)
    IN [n |-> IF BLess(l, r) THEN BSub(r, l) ELSE BSub(l, r), d |-> BMul(x.d, y.d)]
QMax(x, y) == IF QLess(x, y) THEN y ELSE x

(***************************************************************************)
(* rank.py: bradley_terry                                                  *)
(***************************************************************************)
MaxIters == 2          \* the largest max_iters tried
FitMaxOutcomes == 2    \* the longest outcome list behind a wins matrix tried

\* TOL = 1e-10 (line 11) and the literal 1e-12 of lines 97 and 109
TOL == [n |-> <<1>>, d |-> <<0, 0, 100>>]
EPS == [n |-> <<1>>, d |-> <<0, 0, 0, 1>>]

\* sorted(keys), line 88
RECURSIVE SortedNames(_)
SortedNames(S) ==
    IF S = {} THEN <<>>
    ELSE LET m == CHOOSE x \in S : \A y \in S \ {x} : StrLess(x, y)
         IN <<m>> \o SortedNames(S \ {m})

\* sum(d.values()) of a dict of ints
RECURSIVE SumValues(_)
SumValues(d) ==
    IF DOMAIN d = {} THEN 0
    ELSE LET x == CHOOSE x \in DOMAIN d : TRUE
         IN d[x] + SumValues([y \in DOMAIN d \ {x} |-> d[y]])

\* line 104
Matches(w, i, j) == DGet(w[i], j, 0) + DGet(w[j], i, 0)

\* lines 100-107: denom after the players[1..upto] have been visited
RECURSIVE DenomUpTo(_, _, _, _, _)
DenomUpTo(w, sc, players, i, upto) ==
    IF upto = 0 THEN QZero
    ELSE LET j == players[upto]
             before == DenomUpTo(w, sc, players, i, upto - 1)
         IN IF i = j \/ Matches(w, i, j) = 0 THEN before
            ELSE QAdd(before, QDiv(QInt(Matches(w, i, j)), QAdd(sc[i], sc[j])))

\* lines 94-109: new_scores[i]
UpdatedScore(w, sc, players, i) ==
    IF SumValues(w[i]) = 0 THEN EPS
    ELSE LET denom == DenomUpTo(w, sc, players, i, Len(players))
         IN IF ~QIsZero(denom) THEN QDiv(QInt(SumValues(w[i])), denom) ELSE EPS

\* the product of the denominators of new_scores, player k left out
RECURSIVE OtherDens(_, _, _, _)
OtherDens(new, players, k, upto) ==
    IF upto = 0 THEN <<1>>
    ELSE IF players[upto] = k THEN OtherDens(new, players, k, upto - 1)
    ELSE BMul(OtherDens(new, players, k, upto - 1), new[players[upto]].d)

\* new_scores[k] as a numerator over the product of all the denominators
Lifted(new, players, k) == BMul(new[k].n, OtherDens(new, players, k, Len(players)))

RECURSIVE SumLifted(_, _, _)
SumLifted(new, players, upto) ==
    IF upto = 0 THEN <<>>
    ELSE BAdd(SumLifted(new, players, upto - 1), Lifted(new, players, players[upto]))

\* line 111: total = sum(new_scores.values()), over the product of all the
\* denominators
Total(new, players) ==
    [n |-> SumLifted(new, players, Len(players)), d |-> OtherDens(new, players, <<>>, Len(players))]

\* lines 93-109: new_scores once the players[1..upto] have been visited
RECURSIVE NewScores(_, _, _, _)
NewScores(w, sc, players, upto) ==
    IF upto = 0 THEN EmptyDict
    ELSE DSet(NewScores(w, sc, players, upto - 1), players[upto],
              UpdatedScore(w, sc, players, players[upto]))

\* lines 114-115 left out: new_scores as it is
NotNormalized(new, players, total, upto) == new

\* lines 114-115: new_scores[k] /= total, for the players[1..upto].
\* new[k] / total is new[k].n * total.d / (new[k].d * total.n), and
\* total.d / new[k].d is the product of the other denominators: every
\* quotient is written over total.n
RECURSIVE Normalized(_, _, _, _)
Normalized(new, players, total, upto) ==
    IF upto = 0 THEN new
    ELSE DSet(Normalized(new, players, total, upto - 1), players[upto],
              [n |-> Lifted(new, players, players[upto]), d |-> total.n])

\* line 117: max(abs(new_scores[k] - scores[k]) for k in players)
RECURSIVE MaxChange(_, _, _, _)
MaxChange(new, sc, players, upto) ==
    IF upto = 1 THEN QAbsDiff(new[players[1]], sc[players[1]])
    ELSE QMax(MaxChange(new, sc, players, upto - 1),
              QAbsDiff(new[players[upto]], sc[players[upto]]))

\* the test of line 119 that never passes
NeverBelow(delta, t) == FALSE

\* line 119
Below(delta, t) == QLess(delta, t)

\* one pass of the body of the loop, lines 92-120
Round(w, sc, t) ==
    LET players == SortedNames(DOMAIN w)
        new == NewScores(w, sc, players, Len(players))
        total == Total(new, players)
    IN IF QIsZero(total)
       THEN [raised |-> TRUE, scores |-> sc, stop |-> FALSE]
       ELSE LET normal == Normalized(new, players, total, Len(players))
            IN [raised |-> FALSE, scores |-> normal,
                stop |-> Below(MaxChange(normal, sc, players, Len(players)), t)]

\* the matrices build_win_matrix returns to main: load_results returns at
\* least one outcome
FitMatrices == { BuildWinMatrix(rs).wins : rs \in SeqsUpTo(Outcomes, FitMaxOutcomes) \ {<<>>} }

FitInit ==
    /\ f_wins \in FitMatrices
    /\ max_iters \in 1..MaxIters
    /\ tol = TOL
    /\ scores = [p \in DOMAIN f_wins |-> QOne]
    /\ iter = 0
    /\ broke = FALSE
    /\ trail = <<>>
    /\ f_pc = "loop"

\* one iteration of `for _ in range(max_iters)`, lines 91-120
FitRound ==
    /\ f_pc = "loop"
    /\ ~broke
    /\ iter < max_iters
    /\ \E r \in {Round(f_wins, scores, tol)} :
         IF r.raised
         THEN f_pc' = "raised" /\ UNCHANGED <<scores, iter, broke, trail>>
         ELSE /\ scores' = r.scores
              /\ trail' = Append(trail, r.scores)
              /\ iter' = iter + 1
              /\ broke' = r.stop
              /\ f_pc' = f_pc
    /\ UNCHANGED <<f_wins, max_iters, tol, notFit>>

\* line 122, reached by the break or by the end of the range
FitReturn ==
    /\ f_pc = "loop"
    /\ broke \/ iter = max_iters
    /\ f_pc' = "returned"
    /\ UNCHANGED <<f_wins, max_iters, tol, scores, iter, broke, trail, notFit>>

(***************************************************************************)
(* rank.py: rank_scores                                                    *)
(***************************************************************************)
MaxScore == 2     \* scores are drawn from 0..MaxScore

\* the key without the negation
KeyAscending(kv) == <<kv[2], kv[1]>>

\* the key of line 127: (-kv[1], kv[0])
Key(kv) == <<0 - kv[2], kv[1]>>

\* Python's `<` on two (number, str) tuples
KeyLess(x, y) == x[1] < y[1] \/ (x[1] = y[1] /\ StrLess(x[2], y[2]))

\* kv placed in a list sorted by key, after the entries whose key is not
\* greater than its own: sorted() is stable
RECURSIVE InsertByKey(_, _)
InsertByKey(sorted, kv) ==
    IF sorted = <<>> THEN <<kv>>
    ELSE IF KeyLess(Key(kv), Key(sorted[Len(sorted)]))
         THEN Append(InsertByKey(SubSeq(sorted, 1, Len(sorted) - 1), kv), sorted[Len(sorted)])
         ELSE Append(sorted, kv)

\* sorted(items, key=...) of line 127, over the first upto items
RECURSIVE SortedUpTo(_, _)
SortedUpTo(items, upto) ==
    IF upto = 0 THEN <<>> ELSE InsertByKey(SortedUpTo(items, upto - 1), items[upto])

\* the dicts handed to rank_scores: distinct names in any insertion order
ItemLists ==
    { its \in SeqsUpTo(Names \X (0..MaxScore), Cardinality(Names)) :
        \A i, j \in 1..Len(its) : i # j => its[i][1] # its[j][1] }

RankInit ==
    /\ r_scores \in ItemLists
    /\ r_given = r_scores
    /\ r_ranked = <<>>
    /\ r_pc = "call"

\* line 127
RankScores ==
    /\ r_pc = "call"
    /\ r_ranked' = SortedUpTo(r_scores, Len(r_scores))
    /\ r_pc' = "returned"
    /\ UNCHANGED <<r_scores, r_given, notRank>>

(***************************************************************************)
(* rank.py: powerlaw_allocations                                           *)
(*                                                                         *)
(* alpha is drawn from the naturals, so that idx**alpha and every value    *)
(* derived from it is an exact fraction [n |-> numerator, d |-> positive   *)
(* denominator] of machine-sized integers.                                 *)
(***************************************************************************)
MaxAlpha == 2      \* alpha is drawn from 0..MaxAlpha
MaxTopN == 3       \* top_n is drawn from 0..MaxTopN
MaxFil == 3        \* min_fil <= max_fil are drawn from 0..MaxFil
MaxBudget == 6     \* budget_fil is drawn from 0..MaxBudget

FInt(k) == [n |-> k, d |-> 1]
FAdd(x, y) == [n |-> x.n * y.d + y.n * x.d, d |-> x.d * y.d]
FMul(x, y) == [n |-> x.n * y.n, d |-> x.d * y.d]
FDiv(x, y) == [n |-> x.n * y.d, d |-> x.d * y.n]
FLess(x, y) == x.n * y.d < y.n * x.d

\* round(x) of a non-negative fraction: the nearest integer, a tie going to
\* the even one
PyRound(x) ==
    LET q == x.n \div x.d
        r == x.n % x.d
    IN IF 2 * r < x.d THEN q
       ELSE IF 2 * r > x.d THEN q + 1
       ELSE IF q % 2 = 0 THEN q ELSE q + 1

RECURSIVE Pow(_, _)
Pow(b, e) == IF e = 0 THEN 1 ELSE b * Pow(b, e - 1)

\* where the slices lst[:k] and lst[k:] of a list of length len cut it
SliceAt(len, k) == IF k < 0 THEN Max(len + k, 0) ELSE Min(k, len)

\* line 147: ranked[:top_n]
Consider(lst, k) == SubSeq(lst, 1, SliceAt(Len(lst), k))

\* ranked[top_n + 1:]
BeyondSkipping(lst, k) == SubSeq(lst, SliceAt(Len(lst), k) + 2, Len(lst))

\* line 161: ranked[top_n:]
Beyond(lst, k) == SubSeq(lst, SliceAt(Len(lst), k) + 1, Len(lst))

\* line 148: weights[idx - 1]
Weight(i, a) == FDiv(FInt(1), FInt(Pow(i, a)))

\* sum(weights), over a window of n entries
RECURSIVE SumWeights(_, _)
SumWeights(n, a) == IF n = 0 THEN FInt(0) ELSE FAdd(SumWeights(n - 1, a), Weight(n, a))

\* line 149: sum(weights) or 1.0
WeightSum(n, a) == IF SumWeights(n, a).n = 0 THEN FInt(1) ELSE SumWeights(n, a)

\* line 150
Scale(n, a, budget) == FDiv(FInt(budget), WeightSum(n, a))

\* line 153
Raw(i, n, a, budget) == FMul(Scale(n, a, budget), Weight(i, a))

\* lines 155-158, with a floor in place of the drop to zero
ClampUp(alloc, lo, hi) == Max(lo, Min(hi, alloc))

\* lines 155-158
Clamp(alloc, lo, hi) == IF alloc < lo THEN 0 ELSE Min(hi, alloc)

\* a ranked list: distinct names, scores strictly decreasing
RECURSIVE RankedOf(_, _)
RankedOf(ns, upto) ==
    IF upto = 0 THEN <<>> ELSE Append(RankedOf(ns, upto - 1), <<ns[upto], Len(ns) - upto>>)

RankedLists ==
    { RankedOf(ns, Len(ns)) : ns \in { q \in SeqsUpTo(Names, Cardinality(Names)) :
                                         \A i, j \in 1..Len(q) : i # j => q[i] # q[j] } }

AllocInit ==
    /\ a_ranked \in RankedLists
    /\ alpha \in 0..MaxAlpha
    /\ top_n \in 0..MaxTopN
    /\ max_fil \in 0..MaxFil
    /\ min_fil \in 0..max_fil
    /\ budget_fil \in 0..MaxBudget
    /\ allocations = EmptyDict
    /\ a_idx = 0
    /\ a_pc = "loop"

\* one iteration of the loop of lines 152-158
AllocTop ==
    /\ a_pc = "loop"
    /\ a_idx < Len(Consider(a_ranked, top_n))
    /\ LET n == Len(Consider(a_ranked, top_n))
           name == Consider(a_ranked, top_n)[a_idx + 1][1]
           alloc == PyRound(Raw(a_idx + 1, n, alpha, budget_fil))
       IN allocations' = DSet(allocations, name, Clamp(alloc, min_fil, max_fil))
    /\ a_idx' = a_idx + 1
    /\ UNCHANGED <<a_ranked, alpha, top_n, max_fil, min_fil, budget_fil, a_pc, notAlloc>>

\* one iteration of the loop of lines 161-162
AllocBeyond ==
    /\ a_pc = "loop"
    /\ a_idx >= Len(Consider(a_ranked, top_n))
    /\ a_idx < Len(Consider(a_ranked, top_n)) + Len(Beyond(a_ranked, top_n))
    /\ LET name == Beyond(a_ranked, top_n)[a_idx - Len(Consider(a_ranked, top_n)) + 1][1]
       IN allocations' = DSet(allocations, name, 0)
    /\ a_idx' = a_idx + 1
    /\ UNCHANGED <<a_ranked, alpha, top_n, max_fil, min_fil, budget_fil, a_pc, notAlloc>>

\* line 164
AllocReturn ==
    /\ a_pc = "loop"
    /\ a_idx = Len(Consider(a_ranked, top_n)) + Len(Beyond(a_ranked, top_n))
    /\ a_pc' = "returned"
    /\ UNCHANGED <<a_ranked, alpha, top_n, max_fil, min_fil, budget_fil, allocations, a_idx,
                   notAlloc>>

(***************************************************************************)
(* vote.py: rotate_roster, generate_pairs                                  *)
(***************************************************************************)
MaxProjects == 4   \* the longest `projects` tried
MaxMinApp == 2     \* the largest min_appearances tried

\* the bye slot: no text has a negative code point
None == <<0 - 1>>

\* a roster that is never rotated
NoRotation(r) == r

\* lines 38-44
RotateRoster(r) ==
    IF Len(r) <= 2 THEN r
    ELSE LET rest == SubSeq(r, 2, Len(r))
         IN <<r[1]>> \o <<rest[Len(rest)]>> \o SubSeq(rest, 1, Len(rest) - 1)

\* n distinct names: "A", "B", ...
RECURSIVE ProjectList(_)
ProjectList(n) == IF n = 0 THEN <<>> ELSE Append(ProjectList(n - 1), <<64 + n>>)

\* the orders rng.shuffle can leave a list in
RECURSIVE Shuffled(_, _, _)
Shuffled(lst, perm, upto) ==
    IF upto = 0 THEN <<>> ELSE Append(Shuffled(lst, perm, upto - 1), lst[perm[upto]])

Shuffles(lst) ==
    { Shuffled(lst, perm, Len(lst)) :
        perm \in { f \in [1..Len(lst) -> 1..Len(lst)] :
                     \A i, j \in 1..Len(lst) : i # j => f[i] # f[j] } }

\* line 66
RECURSIVE ZeroCounts(_, _)
ZeroCounts(r, upto) ==
    IF upto = 0 THEN EmptyDict
    ELSE IF r[upto] = None THEN ZeroCounts(r, upto - 1)
    ELSE DSet(ZeroCounts(r, upto - 1), r[upto], 0)

\* line 69
MaxRounds(minapp, r) == (minapp + 1) * Len(r)

\* min(counts.values())
MinCount(c) == CHOOSE m \in { c[x] : x \in DOMAIN c } : \A x \in DOMAIN c : m <= c[x]

\* lines 82-83: counts[name] += 1
IncCount(c, name) == DSet(c, name, c[name] + 1)

\* lines 76-83: pairs and counts after the first upto couples of the zip;
\* swap[i] is rng.random() < 0.5 for couple i
RECURSIVE Couples(_, _, _, _, _)
Couples(r, swap, ps, c, upto) ==
    IF upto = 0 THEN [pairs |-> ps, counts |-> c]
    ELSE LET before == Couples(r, swap, ps, c, upto - 1)
             left == r[upto]
             right == r[Len(r) + 1 - upto]
             pair == IF swap[upto] THEN <<right, left>> ELSE <<left, right>>
         IN IF left = None \/ right = None THEN before
            ELSE [pairs |-> Append(before.pairs, pair),
                  counts |-> IncCount(IncCount(before.counts, pair[1]), pair[2])]

PairsInit ==
    /\ projects \in { ProjectList(n) : n \in 2..MaxProjects }
    /\ min_appearances \in 0..MaxMinApp
    /\ roster = <<>>
    /\ counts = EmptyDict
    /\ pairs = <<>>
    /\ round_number = 0
    /\ p_pc = "start"

\* lines 60-69
PairsStart ==
    /\ p_pc = "start"
    /\ \E sh \in Shuffles(projects) :
         /\ roster' = IF Len(sh) % 2 = 1 THEN Append(sh, None) ELSE sh
         /\ counts' = ZeroCounts(sh, Len(sh))
    /\ pairs' = <<>>
    /\ round_number' = 0
    /\ p_pc' = "loop"
    /\ UNCHANGED <<projects, min_appearances, notPairs>>

\* one iteration of the while loop, lines 71-88
PairsRound ==
    /\ p_pc = "loop"
    /\ MinCount(counts) < min_appearances
    /\ \E swap \in [1..(Len(roster) \div 2) -> BOOLEAN] :
         LET after == Couples(roster, swap, pairs, counts, Len(roster) \div 2)
         IN /\ pairs' = after.pairs
            /\ counts' = after.counts
    /\ round_number' = round_number + 1
    /\ IF round_number + 1 > MaxRounds(min_appearances, roster)
       THEN p_pc' = "raised" /\ roster' = roster
       ELSE p_pc' = "loop" /\ roster' = RotateRoster(roster)
    /\ UNCHANGED <<projects, min_appearances, notPairs>>

\* line 90
PairsReturn ==
    /\ p_pc = "loop"
    /\ MinCount(counts) >= min_appearances
    /\ p_pc' = "returned"
    /\ UNCHANGED <<projects, min_appearances, roster, counts, pairs, round_number, notPairs>>

(***************************************************************************)
(* rank.py: main                                                           *)
(***************************************************************************)
\* main, lines 216-220: the rest of the pipeline, which ends in write_csv
\* emitting the header and one row per ranked entity, that is, per key of the
\* wins matrix.  Only the `project` column of the report is kept here.
Emit ==
    /\ pc = "loaded"
    /\ report' = [header |-> TRUE, projects |-> DOMAIN BuildWinMatrix(results).wins]
    /\ pc' = "done"
    /\ UNCHANGED <<file, idx, rows, results, notMain>>

(***************************************************************************)
(* Specifications: one per function, each with the other functions idle    *)
(***************************************************************************)
MainIdle == file = [cols |-> {}, rows |-> <<>>] /\ idx = 0 /\ rows = <<>> /\ results = <<>>
            /\ pc = "off" /\ report = NoReport
MatIdle == m_results = <<>> /\ m_pos = 0 /\ wins = EmptyDict /\ records = EmptyDict /\ m_pc = "off"
FitIdle == f_wins = EmptyDict /\ max_iters = 0 /\ tol = TOL /\ scores = EmptyDict /\ iter = 0
           /\ broke = FALSE /\ trail = <<>> /\ f_pc = "off"

RankIdle == r_scores = <<>> /\ r_given = <<>> /\ r_ranked = <<>> /\ r_pc = "off"
AllocIdle == a_ranked = <<>> /\ alpha = 0 /\ top_n = 0 /\ max_fil = 0 /\ min_fil = 0
             /\ budget_fil = 0 /\ allocations = EmptyDict /\ a_idx = 0 /\ a_pc = "off"
PairsIdle == projects = <<>> /\ min_appearances = 0 /\ roster = <<>> /\ counts = EmptyDict
             /\ pairs = <<>> /\ round_number = 0 /\ p_pc = "off"

InitMain == MainInit /\ MatIdle /\ FitIdle /\ RankIdle /\ AllocIdle /\ PairsIdle
NextMain == LoadRow \/ LoadEnd \/ Emit
SpecMain == InitMain /\ [][NextMain]_vars

InitMatrix == MatInit /\ MainIdle /\ FitIdle /\ RankIdle /\ AllocIdle /\ PairsIdle
NextMatrix == BuildStep \/ BuildReturn
SpecMatrix == InitMatrix /\ [][NextMatrix]_vars

InitFit == FitInit /\ MainIdle /\ MatIdle /\ RankIdle /\ AllocIdle /\ PairsIdle
NextFit == FitRound \/ FitReturn
SpecFit == InitFit /\ [][NextFit]_vars

InitRank == RankInit /\ MainIdle /\ MatIdle /\ FitIdle /\ AllocIdle /\ PairsIdle
NextRank == RankScores
SpecRank == InitRank /\ [][NextRank]_vars

InitAlloc == AllocInit /\ MainIdle /\ MatIdle /\ FitIdle /\ RankIdle /\ PairsIdle
NextAlloc == AllocTop \/ AllocBeyond \/ AllocReturn
SpecAlloc == InitAlloc /\ [][NextAlloc]_vars

InitPairs == PairsInit /\ MainIdle /\ MatIdle /\ FitIdle /\ RankIdle /\ AllocIdle
NextPairs == PairsStart \/ PairsRound \/ PairsReturn
SpecPairs == InitPairs /\ [][NextPairs]_vars


(***************************************************************************)
(* Claims on load_results and main (SpecMain)                              *)
(***************************************************************************)
\* the winner a row declares, read off the row as the contract words it: the
\* explicit winner name when there is one, else the side the selector names
C7_Declares(row, w) ==
    LET a == Strip(row["project_a"])
        b == Strip(row["project_b"])
        key == IF "winner" \in DOMAIN row THEN Strip(row["winner"]) ELSE sEmpty
        name == IF "winner_name" \in DOMAIN row THEN Strip(row["winner_name"]) ELSE sEmpty
    IN \/ name # sEmpty /\ w = name
       \/ name = sEmpty /\ key = sProjectA /\ w = a
       \/ name = sEmpty /\ key = sProjectB /\ w = b

C7_RowValid(row) ==
    \E w \in {Strip(row["project_a"]), Strip(row["project_b"])} : C7_Declares(row, w)

C7_FileValid == /\ Len(file.rows) >= 1
                /\ \A i \in 1..Len(file.rows) : C7_RowValid(file.rows[i])

\* C7: ingestion succeeds only if the file has at least one row and every
\* row's winner resolves to one of the row's two participants, and then it
\* returns every row, in input order; otherwise the run raises, nothing of the
\* file is ingested and no report row (not even the header) is produced.
C7_Ingestion ==
    /\ pc \in {"loaded", "done"} =>
         /\ C7_FileValid
         /\ Len(results) = Len(file.rows)
         /\ \A i \in 1..Len(results) :
              /\ results[i][1] = Strip(file.rows[i]["project_a"])
              /\ results[i][2] = Strip(file.rows[i]["project_b"])
              /\ C7_Declares(file.rows[i], results[i][3])
    /\ pc = "raised" => ~C7_FileValid /\ results = <<>> /\ report = NoReport
    /\ pc = "load" => results = <<>> /\ report = NoReport
    /\ report # NoReport => pc = "done"

\* a run that raised on a later row after accepting an earlier one
C7_Witness == pc = "raised" /\ Len(rows) >= 1 /\ idx < Len(file.rows)

\* C9: every outcome ingestion returns has its winner among its two
\* participants, and two different participants.
C9_OutcomeInvariant ==
    \A i \in 1..Len(results) :
        /\ results[i][3] \in {results[i][1], results[i][2]}
        /\ results[i][1] # results[i][2]

\* the half of C9 the code does enforce
C9_WinnerIsParticipant ==
    \A i \in 1..Len(results) : results[i][3] \in {results[i][1], results[i][2]}

(***************************************************************************)
(* Claims on build_win_matrix (SpecMatrix)                                 *)
(***************************************************************************)
C8_Between(o, x, y) == {o[1], o[2]} = {x, y}
C8_Wins(x, y) == Cardinality({ i \in 1..Len(m_results) :
                     C8_Between(m_results[i], x, y) /\ m_results[i][3] = x })
C8_Won(x) == Cardinality({ i \in 1..Len(m_results) : m_results[i][3] = x })
C8_Appears(x) == Cardinality({ i \in 1..Len(m_results) : x \in {m_results[i][1], m_results[i][2]} })
C8_Participants == UNION { {m_results[i][1], m_results[i][2]} : i \in 1..Len(m_results) }

C8_Holds ==
    /\ DOMAIN wins = C8_Participants
    /\ DOMAIN records = C8_Participants
    /\ \A x \in C8_Participants :
         /\ \A y \in Names : DGet(wins[x], y, 0) = C8_Wins(x, y)
         /\ DOMAIN wins[x] \subseteq C8_Participants
         /\ records[x][1] = C8_Won(x)
         /\ records[x][2] = C8_Appears(x)
         /\ records[x][2] >= records[x][1] /\ records[x][1] >= 0

C8_Example == <<<<sA, sB, sA>>, <<sA, sB, sB>>, <<sA, sC, sA>>>>

\* C8: the matrix counts, for x over y, the outcomes between x and y that x
\* won; each record is (outcomes won, outcomes the entity appears in), so
\* total >= wins >= 0; every participant has a matrix entry and a record.
C8_WinMatrix ==
    m_pc = "returned" =>
        /\ C8_Holds
        /\ m_results = C8_Example =>
             /\ wins[sA][sB] = 1 /\ wins[sB][sA] = 1 /\ wins[sA][sC] = 1
             /\ records[sA] = <<2, 3>> /\ records[sB] = <<1, 2>> /\ records[sC] = <<0, 1>>

\* C8 on the outcome lists that keep the two participants apart
C8_WinMatrixDistinct ==
    (m_pc = "returned" /\ \A i \in 1..Len(m_results) : m_results[i][1] # m_results[i][2])
        => C8_Holds

(***************************************************************************)
(* Claims on bradley_terry (SpecFit)                                       *)
(***************************************************************************)
RECURSIVE C1_SumUpTo(_, _, _)
C1_SumUpTo(sc, players, upto) ==
    IF upto = 0 THEN QZero
    ELSE QAdd(C1_SumUpTo(sc, players, upto - 1), sc[players[upto]])

C1_Sum(sc) == C1_SumUpTo(sc, SortedNames(DOMAIN sc), Cardinality(DOMAIN sc))

\* C1: the vector bradley_terry returns sums to 1, and so does the vector
\* every round leaves behind: the scores are renormalized in every round.
C1_SumsToOne ==
    /\ iter >= 1 => QEq(C1_Sum(scores), QOne)
    /\ \A k \in 1..Len(trail) : QEq(C1_Sum(trail[k]), QOne)
    /\ f_pc = "returned" => iter >= 1

\* a fit of three entities returned after two rounds
C1_Witness == f_pc = "returned" /\ iter = 2 /\ Cardinality(DOMAIN f_wins) = 3

C2_ZeroWins == { z \in DOMAIN f_wins : SumValues(f_wins[z]) = 0 }
C2_Winners == { z \in DOMAIN f_wins : SumValues(f_wins[z]) >= 1 }
C2_Below ==
    \A z \in C2_ZeroWins :
        /\ z \in DOMAIN scores
        /\ QLess(QZero, scores[z])
        /\ \A y \in C2_Winners : QLess(scores[z], scores[y])

\* C2: in the returned vector every entity with no observed win has a score
\* that is strictly positive and strictly below the score of every entity
\* with at least one observed win.
C2_ZeroWinsLowest == f_pc = "returned" => C2_Below

\* C2 on the matrices in which no entity has beaten itself
C2_ZeroWinsLowestDistinct ==
    (f_pc = "returned" /\ \A z \in DOMAIN f_wins : z \notin DOMAIN f_wins[z]) => C2_Below

\* the vector round k started from: the all-ones vector of line 89, then the
\* vector the round before left
C3_Before(k) == IF k = 1 THEN [p \in DOMAIN f_wins |-> QOne] ELSE trail[k - 1]

\* round k moved every entity by less than tol
C3_Converged(k) ==
    \A p \in DOMAIN f_wins : QLess(QAbsDiff(trail[k][p], C3_Before(k)[p]), tol)

\* C3: bradley_terry runs at most max_iters rounds and never raises; it
\* stops at the first round that moved every entity by less than tol, and
\* when no round within the cap does, it returns the vector of the last round.
C3_Terminates ==
    /\ f_pc # "raised"
    /\ iter <= max_iters /\ Len(trail) = iter
    /\ \A k \in 1..(iter - 1) : ~C3_Converged(k)
    /\ broke <=> (iter >= 1 /\ C3_Converged(iter))
    /\ f_pc = "returned" =>
         /\ broke \/ iter = max_iters
         /\ iter >= 1 /\ scores = trail[iter]

\* a fit of several entities that stopped at its second round: the first
\* round moved some entity by tol or more, the second moved none
C3_WitnessBreak ==
    f_pc = "returned" /\ broke /\ iter = 2 /\ Cardinality(DOMAIN f_wins) >= 2

\* a fit that stopped on convergence with rounds to spare
C3_WitnessEarly == f_pc = "returned" /\ broke /\ iter < max_iters

\* a fit of several entities that reached the cap without converging
C3_WitnessCap ==
    f_pc = "returned" /\ ~broke /\ iter = max_iters /\ Cardinality(DOMAIN f_wins) >= 2

(***************************************************************************)
(* Claims on rank_scores (SpecRank)                                        *)
(***************************************************************************)
C4_Entries(lst) == { lst[i] : i \in 1..Len(lst) }

\* C4: rank_scores returns a permutation of the entries of its argument,
\* non-increasing by score, entries of equal score by name ascending; no two
\* entries tie, and the argument is as the caller passed it.
C4_Ranked ==
    r_pc = "returned" =>
        /\ Len(r_ranked) = Len(r_given)
        /\ C4_Entries(r_ranked) = C4_Entries(r_given)
        /\ \A i, j \in 1..Len(r_ranked) :
             i < j => \/ r_ranked[i][2] > r_ranked[j][2]
                      \/ /\ r_ranked[i][2] = r_ranked[j][2]
                         /\ StrLess(r_ranked[i][1], r_ranked[j][1])
        /\ r_scores = r_given

\* three entries, two of them tied on score, handed over in another order
\* than the one returned
C4_Witness ==
    /\ r_pc = "returned" /\ Len(r_ranked) = 3 /\ r_ranked # r_given
    /\ \E i \in 1..2 : r_ranked[i][2] = r_ranked[i + 1][2]
    /\ r_ranked[1][2] > r_ranked[3][2]

(***************************************************************************)
(* Claims on powerlaw_allocations (SpecAlloc)                              *)
(***************************************************************************)
C5_Window == Len(Consider(a_ranked, top_n))
C5_Raw(i) == Raw(i, C5_Window, alpha, budget_fil)
C5_Alloc(i) == allocations[a_ranked[i][1]]
C5_InRange(v) == v = 0 \/ (v \in Int /\ min_fil <= v /\ v <= max_fil)

\* r is round(x): no integer is nearer to x, and of two nearest r is the even one
C5_IsRound(r, x) ==
    LET twice == IF 2 * x.n >= 2 * r * x.d THEN 2 * x.n - 2 * r * x.d
                 ELSE 2 * r * x.d - 2 * x.n
    IN twice <= x.d /\ (twice = x.d => r % 2 = 0)

C6_BeyondIsZero ==
    a_pc = "returned" =>
        /\ DOMAIN allocations = { a_ranked[i][1] : i \in 1..Len(a_ranked) }
        /\ Cardinality(DOMAIN allocations) = Len(a_ranked)
        /\ \A i \in 1..Len(a_ranked) : i > top_n => C5_Alloc(i) = 0

\* a list longer than the window, whose first entity is paid
C6_Witness ==
    /\ a_pc = "returned" /\ Len(a_ranked) = 3 /\ top_n = 1
    /\ C5_Alloc(1) > 0 /\ min_fil > 0

(***************************************************************************)
(* Claims on generate_pairs (SpecPairs)                                    *)
(***************************************************************************)
C10_Projects == { projects[i] : i \in 1..Len(projects) }
C10_Appearances(x) == Cardinality({ k \in 1..Len(pairs) : x \in {pairs[k][1], pairs[k][2]} })

\* C10: generate_pairs never raises; in the list it returns every project
\* is in at least min_appearances pairs, and every pair is of two different
\* projects, neither of them the bye slot.
C10_PairsSatisfied ==
    /\ p_pc # "raised"
    /\ p_pc = "returned" =>
         /\ \A x \in C10_Projects : C10_Appearances(x) >= min_appearances
         /\ \A k \in 1..Len(pairs) :
              /\ pairs[k][1] \in C10_Projects /\ pairs[k][2] \in C10_Projects
              /\ pairs[k][1] # pairs[k][2]

\* an odd number of projects, so that the roster holds the bye slot, and
\* more than one round
C10_Witness ==
    /\ p_pc = "returned" /\ Len(projects) = 3 /\ min_appearances = 2
    /\ round_number >= 3

====
